---------------------------- MODULE Spec2Model ----------------------------
(***************************************************************************)
(* Model of app.py: the /chat request handler (chat), the normalizer of   *)
(* the pipeline's raw text (parse_llm_json) and the text functions it     *)
(* relies on (str.replace, str.strip, json.loads).                        *)
(*                                                                         *)
(* A text is a sequence of characters; a character is a one-character     *)
(* string.  The backtick cannot be written inside a TLA+ string, so it is *)
(* named by its code point.                                                *)
(***************************************************************************)
EXTENDS Integers, Sequences, FiniteSets, TLC

VARIABLES pc, payload, question, raw_answer, parsed_answer, caught,
          response, pipeline_calls, normalizer_calls, trace

vars == <<pc, payload, question, raw_answer, parsed_answer, caught,
          response, pipeline_calls, normalizer_calls, trace>>

(***************************************************************************)
(* Bounds of the model.                                                    *)
(***************************************************************************)
\* longest pipeline text enumerated character by character
MaxGarbageLen == 4
\* most opening fences, and most closing fences, wrapped around an encoding
MaxWrap == 2
\* longest string value enumerated over StrChars
MaxStrLen == 2

(***************************************************************************)
(* Characters.                                                             *)
(***************************************************************************)
BT == "U+0060"
DQ == "\""
BS == "\\"
NL == "\n"
SP == " "

\* "```json" and "```", the two literals of parse_llm_json
FenceJson == <<BT, BT, BT, "j", "s", "o", "n">>
Fence == <<BT, BT, BT>>

\* whitespace skipped by json.loads
JsonWhitespace == {" ", "\t", "\n", "\r"}
\* whitespace removed by str.strip (the ASCII part)
StripWhitespace == {" ", "\t", "\n", "\r", "\f"}
\* characters json.loads rejects unescaped inside a string (strict mode)
ControlChars == {"\t", "\n", "\r", "\f"}
Digits == {"0", "1", "2", "3", "4", "5", "6", "7", "8", "9"}

DigitVal(c) ==
  CASE c = "0" -> 0 [] c = "1" -> 1 [] c = "2" -> 2 [] c = "3" -> 3
    [] c = "4" -> 4 [] c = "5" -> 5 [] c = "6" -> 6 [] c = "7" -> 7
    [] c = "8" -> 8 [] c = "9" -> 9

DigitChar(d) ==
  CASE d = 0 -> "0" [] d = 1 -> "1" [] d = 2 -> "2" [] d = 3 -> "3"
    [] d = 4 -> "4" [] d = 5 -> "5" [] d = 6 -> "6" [] d = 7 -> "7"
    [] d = 8 -> "8" [] d = 9 -> "9"

(***************************************************************************)
(* JSON values, as Python holds them: a tagged record.  A dict is a       *)
(* function from its keys (texts) to values, so two dicts are equal when  *)
(* they hold the same items, in whatever order.                            *)
(***************************************************************************)
NoValue == [type |-> "none", val |-> 0]
JNull == [type |-> "null", val |-> 0]
JBool(b) == [type |-> "bool", val |-> b]
JInt(n) == [type |-> "int", val |-> n]
JFloat(lexeme) == [type |-> "float", val |-> lexeme]
JStr(s) == [type |-> "str", val |-> s]
JList(l) == [type |-> "list", val |-> l]
JDict(d) == [type |-> "dict", val |-> d]
EmptyDict == [k \in {} |-> NoValue]

\* d[key] = v of a Python dict: a key already present is overwritten
DictSet(d, key, v) ==
  [k \in (DOMAIN d) \cup {key} |-> IF k = key THEN v ELSE d[k]]

(***************************************************************************)
(* str.replace(old, ""): every occurrence, left to right, not overlapping. *)
(***************************************************************************)
RECURSIVE Remove(_, _)
Remove(s, old) ==
  IF Len(s) < Len(old) THEN s
  ELSE IF SubSeq(s, 1, Len(old)) = old
       THEN Remove(SubSeq(s, Len(old) + 1, Len(s)), old)
       ELSE <<Head(s)>> \o Remove(Tail(s), old)

\* str.replace(old, "", 1): the first occurrence only
RECURSIVE RemoveFirst(_, _)
RemoveFirst(s, old) ==
  IF Len(s) < Len(old) THEN s
  ELSE IF SubSeq(s, 1, Len(old)) = old
       THEN SubSeq(s, Len(old) + 1, Len(s))
       ELSE <<Head(s)>> \o RemoveFirst(Tail(s), old)

(***************************************************************************)
(* str.strip(): leading and trailing whitespace removed.                   *)
(***************************************************************************)
RECURSIVE LStrip(_)
LStrip(s) ==
  IF s # <<>> /\ Head(s) \in StripWhitespace THEN LStrip(Tail(s)) ELSE s

RECURSIVE RStrip(_)
RStrip(s) ==
  IF s # <<>> /\ s[Len(s)] \in StripWhitespace
  THEN RStrip(SubSeq(s, 1, Len(s) - 1))
  ELSE s

strip(s) == RStrip(LStrip(s))

(***************************************************************************)
(* json.loads.  A scan returns [ok, val, end]: whether it succeeded, the   *)
(* value, and the index of the first character after it.  The texts of    *)
(* this model hold no "-", "+", "N", "I" and no backslash followed by "u", *)
(* so negative numbers, NaN, Infinity and \uXXXX escapes are left out.     *)
(***************************************************************************)
ScanFail == [ok |-> FALSE, val |-> NoValue, end |-> 0]
ScanOk(v, e) == [ok |-> TRUE, val |-> v, end |-> e]

\* the character at index i, or "" past the end
At(s, i) == IF i >= 1 /\ i <= Len(s) THEN s[i] ELSE ""

\* whether the characters of lit stand at index i of s
Lit(s, i, lit) ==
  /\ i + Len(lit) - 1 <= Len(s)
  /\ SubSeq(s, i, i + Len(lit) - 1) = lit

RECURSIVE SkipWs(_, _)
SkipWs(s, i) ==
  IF At(s, i) \in JsonWhitespace THEN SkipWs(s, i + 1) ELSE i

\* the index after the run of digits that starts at i
RECURSIVE SkipDigits(_, _)
SkipDigits(s, i) ==
  IF At(s, i) \in Digits THEN SkipDigits(s, i + 1) ELSE i

RECURSIVE DigitsToInt(_)
DigitsToInt(ds) ==
  IF ds = <<>> THEN 0
  ELSE 10 * DigitsToInt(SubSeq(ds, 1, Len(ds) - 1)) + DigitVal(ds[Len(ds)])

\* the character a backslash escape stands for
Unescape(c) ==
  CASE c = DQ -> DQ [] c = BS -> BS [] c = "/" -> "/" [] c = "n" -> "\n"
    [] c = "t" -> "\t" [] c = "r" -> "\r" [] c = "f" -> "\f"
Escapable == {DQ, BS, "/", "n", "t", "r", "f"}

\* the characters of a string, from the index after its opening quote
RECURSIVE ScanString(_, _, _)
ScanString(s, i, acc) ==
  IF i > Len(s) THEN ScanFail
  ELSE IF s[i] = DQ THEN ScanOk(acc, i + 1)
  ELSE IF s[i] = BS
       THEN IF At(s, i + 1) \in Escapable
            THEN ScanString(s, i + 2, Append(acc, Unescape(s[i + 1])))
            ELSE ScanFail
  ELSE IF s[i] \in ControlChars THEN ScanFail
  ELSE ScanString(s, i + 1, Append(acc, s[i]))

\* NUMBER_RE: (0|[1-9]\d*)(\.\d+)?([eE]\d+)?, an int unless a fraction or an
\* exponent follows
ScanNumber(s, i) ==
  LET intEnd == IF s[i] = "0" THEN i + 1 ELSE SkipDigits(s, i)
      fracEnd == IF At(s, intEnd) = "." /\ At(s, intEnd + 1) \in Digits
                 THEN SkipDigits(s, intEnd + 1)
                 ELSE intEnd
      expEnd == IF At(s, fracEnd) \in {"e", "E"} /\ At(s, fracEnd + 1) \in Digits
                THEN SkipDigits(s, fracEnd + 1)
                ELSE fracEnd
  IN IF expEnd = intEnd
     THEN ScanOk(JInt(DigitsToInt(SubSeq(s, i, intEnd - 1))), intEnd)
     ELSE ScanOk(JFloat(SubSeq(s, i, expEnd - 1)), expEnd)

RECURSIVE ScanValue(_, _)
RECURSIVE ScanMembers(_, _, _)
RECURSIVE ScanElements(_, _, _)

\* JSONObject after "{": "key" : value pairs separated by commas, to "}"
ScanMembers(s, i, acc) ==
  IF At(s, i) # DQ THEN ScanFail
  ELSE LET key == ScanString(s, i + 1, <<>>)
       IN IF ~key.ok THEN ScanFail
          ELSE LET colon == SkipWs(s, key.end)
               IN IF At(s, colon) # ":" THEN ScanFail
                  ELSE LET v == ScanValue(s, SkipWs(s, colon + 1))
                       IN IF ~v.ok THEN ScanFail
                          ELSE LET nxt == SkipWs(s, v.end)
                                   d == DictSet(acc, key.val, v.val)
                               IN IF At(s, nxt) = "}" THEN ScanOk(JDict(d), nxt + 1)
                                  ELSE IF At(s, nxt) = ","
                                       THEN ScanMembers(s, SkipWs(s, nxt + 1), d)
                                       ELSE ScanFail

\* JSONArray after "[": values separated by commas, to "]"
ScanElements(s, i, acc) ==
  LET v == ScanValue(s, i)
  IN IF ~v.ok THEN ScanFail
     ELSE LET nxt == SkipWs(s, v.end)
              l == Append(acc, v.val)
          IN IF At(s, nxt) = "]" THEN ScanOk(JList(l), nxt + 1)
             ELSE IF At(s, nxt) = ","
                  THEN ScanElements(s, SkipWs(s, nxt + 1), l)
                  ELSE ScanFail

\* scan_once: the value that starts at index i
ScanValue(s, i) ==
  LET c == At(s, i)
  IN IF c = DQ
     THEN LET str == ScanString(s, i + 1, <<>>)
          IN IF str.ok THEN ScanOk(JStr(str.val), str.end) ELSE ScanFail
     ELSE IF c = "{"
     THEN LET j == SkipWs(s, i + 1)
          IN IF At(s, j) = "}" THEN ScanOk(JDict(EmptyDict), j + 1)
             ELSE ScanMembers(s, j, EmptyDict)
     ELSE IF c = "["
     THEN LET j == SkipWs(s, i + 1)
          IN IF At(s, j) = "]" THEN ScanOk(JList(<<>>), j + 1)
             ELSE ScanElements(s, j, <<>>)
     ELSE IF Lit(s, i, <<"n", "u", "l", "l">>) THEN ScanOk(JNull, i + 4)
     ELSE IF Lit(s, i, <<"t", "r", "u", "e">>) THEN ScanOk(JBool(TRUE), i + 4)
     ELSE IF Lit(s, i, <<"f", "a", "l", "s", "e">>) THEN ScanOk(JBool(FALSE), i + 5)
     ELSE IF c \in Digits THEN ScanNumber(s, i)
     ELSE ScanFail

\* JSONDecoder.decode: one value, whitespace around it, nothing after it
json_loads(s) ==
  LET v == ScanValue(s, SkipWs(s, 1))
  IN IF ~v.ok THEN ScanFail
     ELSE IF SkipWs(s, v.end) <= Len(s) THEN ScanFail
     ELSE v

(***************************************************************************)
(* json.dumps, the encoder json.loads inverts: ", " and ": " separators,   *)
(* quotes, backslashes and control characters of a string escaped.  A     *)
(* dict's items are written in one fixed order of its keys.                *)
(***************************************************************************)
EscapeChar(c) ==
  CASE c = DQ -> <<BS, DQ>>
    [] c = BS -> <<BS, BS>>
    [] c = "\n" -> <<BS, "n">>
    [] c = "\t" -> <<BS, "t">>
    [] c = "\r" -> <<BS, "r">>
    [] c = "\f" -> <<BS, "f">>
    [] OTHER -> <<c>>

RECURSIVE EscapeString(_)
EscapeString(s) ==
  IF s = <<>> THEN <<>> ELSE EscapeChar(Head(s)) \o EscapeString(Tail(s))

RECURSIVE IntToDigits(_)
IntToDigits(n) ==
  IF n < 10 THEN <<DigitChar(n)>>
  ELSE Append(IntToDigits(n \div 10), DigitChar(n % 10))

\* the keys of a dict in the order its items are written
KeyOrder(d) ==
  CHOOSE o \in [1..Cardinality(DOMAIN d) -> DOMAIN d] :
    \A k \in DOMAIN d : \E i \in DOMAIN o : o[i] = k

RECURSIVE json_dumps(_)
RECURSIVE DumpItems(_, _, _)
RECURSIVE DumpElements(_, _)

DumpItems(d, order, i) ==
  IF i > Len(order) THEN <<>>
  ELSE (IF i > 1 THEN <<",", SP>> ELSE <<>>)
       \o <<DQ>> \o EscapeString(order[i]) \o <<DQ, ":", SP>>
       \o json_dumps(d[order[i]])
       \o DumpItems(d, order, i + 1)

DumpElements(l, i) ==
  IF i > Len(l) THEN <<>>
  ELSE (IF i > 1 THEN <<",", SP>> ELSE <<>>)
       \o json_dumps(l[i]) \o DumpElements(l, i + 1)

json_dumps(v) ==
  CASE v.type = "null" -> <<"n", "u", "l", "l">>
    [] v.type = "bool" -> IF v.val THEN <<"t", "r", "u", "e">>
                          ELSE <<"f", "a", "l", "s", "e">>
    [] v.type = "int" -> IntToDigits(v.val)
    [] v.type = "str" -> <<DQ>> \o EscapeString(v.val) \o <<DQ>>
    [] v.type = "list" -> <<"[">> \o DumpElements(v.val, 1) \o <<"]">>
    [] v.type = "dict" -> <<"{">> \o DumpItems(v.val, KeyOrder(v.val), 1) \o <<"}">>

(***************************************************************************)
(* parse_llm_json.  The local name raw is rebound by each replace, so the  *)
(* except branch reads the text as it stands after both replaces: a str    *)
(* has a replace method, and only json.loads can raise.                    *)
(***************************************************************************)
K_answer == <<"a", "n", "s", "w", "e", "r">>
K_justification ==
  <<"j", "u", "s", "t", "i", "f", "i", "c", "a", "t", "i", "o", "n">>
K_raw_output == <<"r", "a", "w", "_", "o", "u", "t", "p", "u", "t">>
T_ERROR == <<"E", "R", "R", "O", "R">>
T_invalid ==
  <<"L", "L", "M", " ", "r", "e", "t", "u", "r", "n", "e", "d", " ",
    "i", "n", "v", "a", "l", "i", "d", " ", "J", "S", "O", "N">>

\* the except branch with the justification item left out
FallbackWithoutJustification(raw) ==
  JDict(DictSet(DictSet(EmptyDict,
    K_answer, JStr(T_ERROR)),
    K_raw_output, JStr(raw)))

\* the dict of the except branch, lines 16 to 20
Fallback(raw) ==
  JDict(DictSet(DictSet(DictSet(EmptyDict,
    K_answer, JStr(T_ERROR)),
    K_justification, JStr(T_invalid)),
    K_raw_output, JStr(raw)))

\* replace with a count of 1: only the first fence of each kind removed
StripFencesFirstOnly(raw) == RemoveFirst(RemoveFirst(raw, FenceJson), Fence)
\* a single backtick taken for the fence: every backtick removed
StripBackticks(raw) == Remove(Remove(raw, FenceJson), <<BT>>)

\* raw after lines 12 and 13
StripFences(raw) == Remove(Remove(raw, FenceJson), Fence)

parse_llm_json(raw) ==
  LET stripped == StripFences(raw)
      loaded == json_loads(stripped)
  IN IF loaded.ok THEN loaded.val ELSE Fallback(stripped)

(***************************************************************************)
(* The inputs of the model: request payloads, and what the pipeline        *)
(* (answer_question) does when it is called.                               *)
(***************************************************************************)
\* all texts over chars of length at most n
TextsUpTo(chars, n) == UNION {[1..k -> chars] : k \in 0..n}

K_question == <<"q", "u", "e", "s", "t", "i", "o", "n">>

QuestionTexts ==
  {<<>>, <<SP, SP>>, <<"\t", NL>>, <<"q">>, <<SP, "q", SP, "r", NL>>}

\* the request body as Flask sees it: no JSON body at all, a body that is
\* not valid JSON, or the decoded JSON value
Payloads ==
  {[kind |-> "absent", data |-> NoValue],
   [kind |-> "malformed", data |-> NoValue]}
  \cup {[kind |-> "json", data |-> d] :
         d \in {JNull, JInt(7), JStr(<<"q">>), JList(<<JStr(<<"q">>)>>),
                JDict(EmptyDict),
                JDict(DictSet(EmptyDict, <<"q">>, JStr(<<"q">>))),
                JDict(DictSet(EmptyDict, K_question, JNull)),
                JDict(DictSet(EmptyDict, K_question, JInt(7)))}
               \cup {JDict(DictSet(EmptyDict, K_question, JStr(q))) :
                      q \in QuestionTexts}}

StrChars == {"a", BT}
StrVals ==
  TextsUpTo(StrChars, MaxStrLen)
  \cup {Fence, FenceJson, <<"X">>, <<"a">> \o FenceJson \o <<"b">>,
        <<DQ, BS, NL>>}
Scalars ==
  {JNull, JBool(TRUE), JBool(FALSE), JInt(0), JInt(7), JInt(10)}
  \cup {JStr(s) : s \in StrVals}
Lists ==
  {JList(<<>>), JList(<<JInt(7), JStr(<<"a">>)>>)}
  \cup {JList(<<v>>) : v \in Scalars}
Keys == {K_answer, K_justification, <<"a">>, <<"a">> \o Fence}
\* the structured objects: mappings of string keys to values
Objects ==
  {JDict(EmptyDict),
   JDict(DictSet(DictSet(EmptyDict, <<"a">> \o Fence, JInt(0)), <<"a">>, JInt(7))),
   JDict(DictSet(EmptyDict, K_answer,
                 JDict(DictSet(EmptyDict, <<"a">>, JList(<<JStr(Fence)>>)))))}
  \cup {JDict(DictSet(EmptyDict, k, v)) : k \in Keys, v \in Scalars}
  \cup {JDict(DictSet(DictSet(EmptyDict, K_answer, JStr(s)),
                      K_justification, JStr(<<"Y">>))) : s \in StrVals}
Values == Scalars \cup Lists \cup Objects

RECURSIVE Repeat(_, _)
Repeat(s, n) == IF n = 0 THEN <<>> ELSE s \o Repeat(s, n - 1)

\* what stands between a fence and the text it wraps: a line break or nothing
FenceGaps == {<<NL>>, <<>>}

\* t with k opening fences "```json" before it and m closing fences "```"
\* after it, each set off by gap
Wrap(t, k, m, gap) ==
  Repeat(FenceJson \o gap, k) \o t \o Repeat(gap \o Fence, m)

GarbageChars == {BT, "{", "}", DQ, "1", "j"}

\* the texts answer_question may return
PipelineTexts ==
  TextsUpTo(GarbageChars, MaxGarbageLen)
  \cup {Wrap(json_dumps(v), k, m, g) :
          v \in Values, k \in 0..MaxWrap, m \in 0..MaxWrap, g \in FenceGaps}

\* str(e) of the exceptions answer_question may raise
PipelineErrors == {"timed out", "connection refused", ""}

(***************************************************************************)
(* chat, lines 43 to 48: the payload decoded, the question extracted.      *)
(***************************************************************************)
PyTypeName(v) ==
  CASE v.type = "none" -> "NoneType" [] v.type = "null" -> "NoneType"
    [] v.type = "bool" -> "bool" [] v.type = "int" -> "int"
    [] v.type = "float" -> "float" [] v.type = "str" -> "str"
    [] v.type = "list" -> "list" [] v.type = "dict" -> "dict"

AttributeError(v, attr) ==
  "'" \o PyTypeName(v) \o "' object has no attribute '" \o attr \o "'"

Returned(v) == [raised |-> FALSE, val |-> v, msg |-> ""]
Raised(m) == [raised |-> TRUE, val |-> NoValue, msg |-> m]

\* request.get_json(): the outcomes a Flask release can produce.  Without a
\* JSON body it returns None (Flask before 2.1) or raises 415 (later); a body
\* that does not parse raises 400.  Both are HTTPException, an Exception.
get_json(p) ==
  CASE p.kind = "json" -> {Returned(p.data)}
    [] p.kind = "malformed" ->
         {Raised("400 Bad Request: Failed to decode JSON object")}
    [] p.kind = "absent" ->
         {Returned(JNull),
          Raised("415 Unsupported Media Type: Did not attempt to load JSON data because the request Content-Type was not 'application/json'.")}

\* data.get("question", "") without the strip
ExtractQuestionNoStrip(data) ==
  IF data.type # "dict" THEN Raised(AttributeError(data, "get"))
  ELSE LET q == IF K_question \in DOMAIN data.val
                THEN data.val[K_question] ELSE JStr(<<>>)
       IN IF q.type # "str" THEN Raised(AttributeError(q, "strip"))
          ELSE Returned(q.val)

\* data.get("question", "").strip(), line 45
ExtractQuestion(data) ==
  IF data.type # "dict" THEN Raised(AttributeError(data, "get"))
  ELSE LET q == IF K_question \in DOMAIN data.val
                THEN data.val[K_question] ELSE JStr(<<>>)
       IN IF q.type # "str" THEN Raised(AttributeError(q, "strip"))
          ELSE Returned(strip(q.val))

(***************************************************************************)
(* The responses of chat.                                                  *)
(***************************************************************************)
NoResponse == [status |-> 0, body |-> [error |-> ""]]

\* line 48
EmptyQuestionResult == [status |-> 400, body |-> [error |-> "Empty question"]]

\* the raw text sent as the result
ChatResultWithoutNormalizing(q, raw, parsed) ==
  [status |-> 200, body |-> [question |-> q, result |-> JStr(raw)]]

\* lines 53 to 56: jsonify without a status is a 200
ChatResult(q, raw, parsed) ==
  [status |-> 200, body |-> [question |-> q, result |-> parsed]]

\* a fixed message instead of str(e)
ErrorResultFixedMessage(m) ==
  [status |-> 500, body |-> [error |-> "Internal Server Error"]]

\* lines 58 to 60
ErrorResult(m) == [status |-> 500, body |-> [error |-> m]]

(***************************************************************************)
(* The state of one POST /chat request.  pc is the lifecycle state the     *)
(* handler is in, trace the states it has been through; caught is the      *)
(* exception e bound at line 58, pipeline_calls and normalizer_calls the   *)
(* arguments answer_question and parse_llm_json were called with.          *)
(***************************************************************************)
NoException == [raised |-> FALSE, msg |-> ""]
Exception(m) == [raised |-> TRUE, msg |-> m]

Init ==
  /\ pc = "Received"
  /\ payload \in Payloads
  /\ question = <<>>
  /\ raw_answer = <<>>
  /\ parsed_answer = NoValue
  /\ caught = NoException
  /\ response = NoResponse
  /\ pipeline_calls = <<>>
  /\ normalizer_calls = <<>>
  /\ trace = <<"Received">>

Goto(state) ==
  /\ pc' = state
  /\ trace' = Append(trace, state)

\* lines 44 to 48: get_json, the question, the empty-question check; an
\* exception raised on the way is caught at line 58
Validate ==
  /\ pc = "Received"
  /\ \E got \in get_json(payload) :
       LET q == IF got.raised THEN got ELSE ExtractQuestion(got.val)
       IN IF q.raised
          THEN /\ Goto("Failed")
               /\ caught' = Exception(q.msg)
               /\ response' = ErrorResult(q.msg)
               /\ UNCHANGED question
          ELSE IF q.val = <<>>
          THEN /\ Goto("Rejected")
               /\ response' = EmptyQuestionResult
               /\ question' = q.val
               /\ UNCHANGED caught
          ELSE /\ Goto("Validated")
               /\ question' = q.val
               /\ UNCHANGED <<caught, response>>
  /\ UNCHANGED <<payload, raw_answer, parsed_answer, pipeline_calls,
                 normalizer_calls>>

\* line 50: answer_question is called with question
Delegate ==
  /\ pc = "Validated"
  /\ Goto("Delegated")
  /\ pipeline_calls' = Append(pipeline_calls, question)
  /\ UNCHANGED <<payload, question, raw_answer, parsed_answer, caught,
                 response, normalizer_calls>>

\* lines 50 and 51: answer_question returns s, parse_llm_json normalizes it
PipelineReturns(s) ==
  /\ pc = "Delegated"
  /\ Goto("Normalized")
  /\ raw_answer' = s
  /\ normalizer_calls' = Append(normalizer_calls, s)
  /\ parsed_answer' = parse_llm_json(s)
  /\ UNCHANGED <<payload, question, caught, response, pipeline_calls>>

\* lines 50 and 58 to 60: answer_question raises, the handler answers 500
PipelineRaises(m) ==
  /\ pc = "Delegated"
  /\ Goto("Failed")
  /\ caught' = Exception(m)
  /\ response' = ErrorResult(m)
  /\ UNCHANGED <<payload, question, raw_answer, parsed_answer,
                 pipeline_calls, normalizer_calls>>

\* lines 53 to 56
Respond ==
  /\ pc = "Normalized"
  /\ Goto("Responded")
  /\ response' = ChatResult(question, raw_answer, parsed_answer)
  /\ UNCHANGED <<payload, question, raw_answer, parsed_answer, caught,
                 pipeline_calls, normalizer_calls>>

Next ==
  \/ Validate
  \/ Delegate
  \/ \E s \in PipelineTexts : PipelineReturns(s)
  \/ \E m \in PipelineErrors : PipelineRaises(m)
  \/ Respond

Spec == Init /\ [][Next]_vars

Terminal == pc \in {"Responded", "Rejected", "Failed"}

(***************************************************************************)
(* What the claims read off a state.                                       *)
(***************************************************************************)
\* parse_llm_json has returned for this request
Normalized == pc \in {"Normalized", "Responded"}

\* the text json.loads was given, and whether it parsed
ParseFailed(raw) == ~json_loads(StripFences(raw)).ok

HasKeys(v, keys) == v.type = "dict" /\ keys \subseteq DOMAIN v.val

RECURSIVE Contains(_, _)
Contains(s, sub) ==
  /\ Len(s) >= Len(sub)
  /\ \/ SubSeq(s, 1, Len(sub)) = sub
     \/ Contains(Tail(s), sub)

\* the payload is a JSON object whose question is a string
HasQuestionText ==
  /\ payload.kind = "json"
  /\ HasKeys(payload.data, {K_question})
  /\ payload.data.val[K_question].type = "str"

\* the question of the payload, trimmed
TrimmedQuestion == strip(payload.data.val[K_question].val)

\* each structured object with its encoding
EncodedObjects == {[x |-> x, text |-> json_dumps(x)] : x \in Objects}

\* each encoding with each way of wrapping it in at least one fence
WrappedObjects ==
  {[plain |-> e.text, wrapped |-> Wrap(e.text, k, m, g)] :
     e \in EncodedObjects, k \in 0..MaxWrap, m \in 0..MaxWrap, g \in FenceGaps} \
  {[plain |-> e.text, wrapped |-> e.text] : e \in EncodedObjects}

(***************************************************************************)
(* C1 as stated: for every text, parse_llm_json returns a mapping that     *)
(* holds the keys answer and justification.                                *)
(***************************************************************************)
C1_AlwaysAnswerAndJustification ==
  Normalized => HasKeys(parsed_answer, {K_answer, K_justification})

(***************************************************************************)
(* C1 amended: for every text, parse_llm_json returns a value and never    *)
(* raises; when the fence-stripped text does not parse it is a mapping     *)
(* that holds the keys answer and justification, and when it parses it is  *)
(* the parsed value as it is.                                              *)
(***************************************************************************)
C1_TotalWithFallbackKeys ==
  Normalized =>
    /\ parsed_answer # NoValue
    /\ caught = NoException
    /\ IF ParseFailed(raw_answer)
       THEN HasKeys(parsed_answer, {K_answer, K_justification})
       ELSE parsed_answer = json_loads(StripFences(raw_answer)).val

\* the empty text is normalized to the fallback mapping
C1_Witness ==
  /\ pc = "Normalized"
  /\ raw_answer = <<>>
  /\ HasKeys(parsed_answer, {K_answer, K_justification})

(***************************************************************************)
(* C2: a request whose payload is absent, is not a structured object,     *)
(* lacks the question field, or has a question that is empty once trimmed  *)
(* is answered 400 {"error": "Empty question"}.                            *)
(***************************************************************************)
C2_EmptyQuestionIs400 ==
  (Terminal /\ (~HasKeys(payload.data, {K_question})
                \/ (HasQuestionText /\ TrimmedQuestion = <<>>)))
    => response = EmptyQuestionResult

(***************************************************************************)
(* C3: when parsing fails, the returned object is exactly answer "ERROR",  *)
(* justification "LLM returned invalid JSON" and raw_output the text that  *)
(* was passed in, unmodified.                                              *)
(***************************************************************************)
C3_FallbackKeepsOriginalText ==
  (Normalized /\ ParseFailed(raw_answer)) => parsed_answer = Fallback(raw_answer)

(***************************************************************************)
(* C4 as stated: for every structured object x, normalizing the encoding   *)
(* of x gives x back.                                                      *)
(***************************************************************************)
C4_RoundTrip ==
  Normalized =>
    \A e \in EncodedObjects : raw_answer = e.text => parsed_answer = e.x

(***************************************************************************)
(* C4 amended: for every structured object x whose encoding holds no fence *)
(* marker (three backticks in a row), normalizing the encoding of x gives  *)
(* x back.                                                                 *)
(***************************************************************************)
C4_RoundTripWithoutFence ==
  Normalized =>
    \A e \in EncodedObjects :
      (raw_answer = e.text /\ ~Contains(e.text, Fence)) => parsed_answer = e.x

\* an object whose string holds backticks, a quote and a backslash came back
C4_Witness ==
  /\ pc = "Normalized"
  /\ \E s \in {<<BT, BT>>, <<DQ, BS, NL>>} :
       LET x == JDict(DictSet(EmptyDict, K_answer, JStr(s)))
       IN raw_answer = json_dumps(x) /\ parsed_answer = x

(***************************************************************************)
(* C5: answer_question is called at most once per request, never when the  *)
(* request is rejected, and always with the trimmed question.              *)
(***************************************************************************)
C5_PipelineCalledOnceWithTrimmedQuestion ==
  /\ Len(pipeline_calls) <= 1
  /\ pc \in {"Received", "Validated", "Rejected"} => pipeline_calls = <<>>
  /\ (HasQuestionText /\ TrimmedQuestion = <<>>) => pipeline_calls = <<>>
  /\ pipeline_calls # <<>> =>
       /\ HasQuestionText
       /\ pipeline_calls[1] = TrimmedQuestion

\* a question with whitespace around it reached the pipeline trimmed
C5_Witness ==
  /\ pc = "Responded"
  /\ Len(pipeline_calls) = 1
  /\ payload.data.val[K_question].val # pipeline_calls[1]

(***************************************************************************)
(* C6: when the trimmed question is not empty and the pipeline returns a   *)
(* text s, the response is 200 with the trimmed question and the result of *)
(* normalizing s; a text that does not parse gives 200 with answer         *)
(* "ERROR".                                                                *)
(***************************************************************************)
C6_ReturnedTextIs200 ==
  (Terminal /\ normalizer_calls # <<>>) =>
    /\ pc = "Responded"
    /\ HasQuestionText
    /\ response.status = 200
    /\ response.body = [question |-> TrimmedQuestion,
                        result |-> parse_llm_json(normalizer_calls[1])]
    /\ ParseFailed(normalizer_calls[1]) =>
         /\ HasKeys(response.body.result, {K_answer})
         /\ response.body.result.val[K_answer] = JStr(T_ERROR)

\* a text that does not parse was answered with 200
C6_Witness ==
  /\ pc = "Responded"
  /\ ParseFailed(raw_answer)
  /\ response.status = 200

(***************************************************************************)
(* C7: when the pipeline raises, the response is 500 with the exception's  *)
(* message, and parse_llm_json is not called.                              *)
(***************************************************************************)
C7_PipelineFailureIs500 ==
  (caught.raised /\ pipeline_calls # <<>>) =>
    /\ pc = "Failed"
    /\ response = [status |-> 500, body |-> [error |-> caught.msg]]
    /\ normalizer_calls = <<>>
    /\ parsed_answer = NoValue

\* the pipeline was called and raised
C7_Witness ==
  /\ pc = "Failed"
  /\ pipeline_calls # <<>>
  /\ response.body.error = "timed out"

(***************************************************************************)
(* C8: a request follows one of the three paths Received, Validated,       *)
(* Delegated, Normalized, Responded; Received, Rejected; Received,         *)
(* Validated, Delegated, Failed: Failed is never reached from Received.    *)
(***************************************************************************)
C8_ThreePaths ==
  Terminal =>
    trace \in {<<"Received", "Validated", "Delegated", "Normalized", "Responded">>,
               <<"Received", "Rejected">>,
               <<"Received", "Validated", "Delegated", "Failed">>}

(***************************************************************************)
(* C9: normalizing the encoding of an object wrapped in fences, any number *)
(* of them, gives what normalizing the encoding alone gives.               *)
(***************************************************************************)
C9_FenceWrapEquivalence ==
  Normalized =>
    \A w \in WrappedObjects :
      raw_answer = w.wrapped => parsed_answer = parse_llm_json(w.plain)

\* an encoding inside two opening and two closing fences was normalized
C9_Witness ==
  /\ pc = "Normalized"
  /\ LET x == JDict(DictSet(DictSet(EmptyDict, K_answer, JStr(<<"X">>)),
                            K_justification, JStr(<<"Y">>)))
     IN raw_answer = Wrap(json_dumps(x), 2, 2, <<NL>>) /\ parsed_answer = x

(***************************************************************************)
(* C10: when the fence-stripped text parses to a value that is not a       *)
(* mapping, the fallback object is returned: what parse_llm_json returns   *)
(* is always a mapping.                                                    *)
(***************************************************************************)
C10_AlwaysAMapping ==
  Normalized =>
    /\ parsed_answer.type = "dict"
    /\ (~ParseFailed(raw_answer)
        /\ json_loads(StripFences(raw_answer)).val.type # "dict")
         => parsed_answer = Fallback(StripFences(raw_answer))

=============================================================================
